---- MODULE Spec2Model ----
(***************************************************************************)
(* Lead intake (main.py: submit_form) and the background flow that polls   *)
(* the Sales Builder status endpoint and dispatches the answers through    *)
(* the Evolution API (sales_builder_status_checker.py, evo_api_v2.py).     *)
(*                                                                         *)
(* Strings whose characters matter (phone numbers) are tuples of           *)
(* one-character strings; message texts are the tokens of Texts.           *)
(* Every await of the code is a step of the flow that makes it.            *)
(***************************************************************************)
EXTENDS Integers, Sequences, FiniteSets, TLC

\* ------------------------------------------------------------------ bounds
\* attempt budget of the poller (the code's default is 20)
max_retries == 2
\* probes of one call of check_task_status the model counts (the count stays
\* at this value when further probes are made)
MaxProbes == 4
\* longest message list of a task result
MaxMsgs == 3
\* longest recipient string of a task result
MaxRecipientLen == 3

\* the submissions the model follows (request ids)
Submissions == {1, 2}

\* ------------------------------------------------------------- characters
\* "sup2" stands for U+00B2 (superscript two): str.isdigit() accepts it,
\* the regular expression class \d does not.
AsciiDigits == {"0", "1", "5"}
Chars == {"1", "5", "+", "sup2"}

\* str.isdigit() on one character
IsDigitChar(c) == c \in AsciiDigits \cup {"sup2"}
\* the class \d of module re on one character
ReDigit(c) == c \in AsciiDigits

\* str.isdigit(): non-empty and every character a digit
IsDigit(w) == Len(w) > 0 /\ \A k \in 1..Len(w) : IsDigitChar(w[k])

\* re.sub(r'\D', '', w): drop every character \D matches
RECURSIVE StripNonDigits(_)
StripNonDigits(w) ==
    IF w = <<>> THEN <<>>
    ELSE IF ReDigit(Head(w)) THEN <<Head(w)>> \o StripNonDigits(Tail(w))
         ELSE StripNonDigits(Tail(w))

\* main.py clean_whatsapp_number
clean_whatsapp_number(number) == StripNonDigits(number)

\* re.match(r'^[1-9]\d{1,14}$', clean_number)
ValidWhatsapp(w) ==
    /\ Len(w) >= 2 /\ Len(w) <= 15
    /\ w[1] \in AsciiDigits \ {"0"}
    /\ \A k \in 1..Len(w) : ReDigit(w[k])

\* ------------------------------------------------------------------ texts
\* message texts: two ordinary ones, one of whitespace only, the empty one
Texts == {"a", "b", " ", ""}
\* `if message and isinstance(message, str)`
Sendable(m) == m # ""
\* len(text.split()) = 0: estimate_typing_time divides by it
WhitespaceOnly(m) == m = " "

FALLBACK_1 == "fallback1"
FALLBACK_2 == "fallback2"
\* the fallback pair in the wrong order
FallbackMessagesSwapped == <<FALLBACK_2, FALLBACK_1>>
FallbackMessages == <<FALLBACK_1, FALLBACK_2>>

SeqsUpTo(S, n) == UNION {[1..k -> S] : k \in 0..n}

\* ------------------------------------------------------------ task data
\* The dict check_task_status returns: an error dict or the response body
\* with status_code added.
NoData ==
    [error |-> "", status_code |-> 0, has_task_id |-> FALSE, has_result |-> FALSE,
     whatsapp |-> <<>>, msg_resposta |-> <<>>, fallback_messages_used |-> FALSE]

Body(hasId, hasResult, w, msgs) ==
    [error |-> "", status_code |-> 0, has_task_id |-> hasId, has_result |-> hasResult,
     whatsapp |-> w, msg_resposta |-> msgs, fallback_messages_used |-> FALSE]

\* a poller that gives up with an empty 200 body where it should report the error
ErrorResultAsEmptyBody(e) ==
    [Body(TRUE, TRUE, <<"5", "1">>, <<>>) EXCEPT !.status_code = 200]

\* {"error": ..., "task_id": task_id}
ErrorResult(e) ==
    [error |-> e, status_code |-> 0, has_task_id |-> TRUE, has_result |-> FALSE,
     whatsapp |-> <<>>, msg_resposta |-> <<>>, fallback_messages_used |-> FALSE]

\* `"error" in task_data`
HasError(td) == td.error # ""

\* a has_messages that is satisfied by any result, its message list empty or not
HasMessagesAnyResult(b) == b.has_result

\* has_messages of check_task_status
HasMessages(b) == b.has_result /\ b.msg_resposta # <<>>


\* ------------------------------------------------------------------ state
VARIABLES
    hpc,        \* submit_form of each submission: the await it is at
    hloc,       \* its locals
    response,   \* what submit_form answered
    leads,      \* collection crm_db: the stored whatsapp_prospect, by lead id
    queue,      \* collection request_queue: one document per submission
    clock,      \* datetime.utcnow(), counted per request document
    kickoffs,   \* calls of the kickoff endpoint made for each submission
    bg,         \* process_sales_builder_task of each submission: position and locals
    sent,       \* calls of send_text_message made by each flow, in order
    history,    \* calls of insert_chat_history made by each flow, in order
    rate        \* the RateLimiter: collection rate_limits, the wall clock, its calls

vars == <<hpc, hloc, response, leads, queue, clock, kickoffs, bg, sent, history, rate>>

\* fallback_messages_used: the key no update of the code ever sets on the document
NoRecord ==
    [status |-> "none", steps |-> <<>>, messages |-> <<>>, message_count |-> 0,
     task_id |-> 0, task_result |-> "unset", fallback_messages_used |-> FALSE]

NoResponse == [code |-> 0, is_duplicate |-> FALSE, document_id |-> 0]

NoLocals ==
    [number |-> <<>>, api_key_ok |-> TRUE,
     clean |-> <<>>, stored_at_lookup |-> FALSE, existing |-> 0, doc |-> 0,
     sb |-> "none", push_ts |-> 0]

\* locals of the background flow; pc "idle" = not started; lost = an update
\* of the flow was not applied by the store; probes and parity
\* count the probes of the current call of check_task_status (parity modulo 2);
\* api_key is the key the checker sends, rejected the key it sent before the refresh;
\* open holds the clients the flow has created and not closed: "mongodb_client"
\* (request documents), "client" (httpx), "replacement_client" (httpx, after
\* the refresh), "history_client" (chat histories)
NoFlow ==
    [pc |-> "idle", has_queue |-> FALSE, is_configured |-> TRUE,
     retries |-> 0, probes |-> 0, parity |-> 0, sleeps |-> 0, polls |-> 0, refreshed |-> FALSE,
     seen |-> {}, poll_failed |-> FALSE, stored |-> "none", lost |-> FALSE, task_data |-> NoData, given |-> NoData,
     whatsapp |-> <<>>, messages |-> <<>>, i |-> 1,
     all_messages_sent_successfully |-> TRUE, success |-> FALSE,
     api_key |-> "key", rejected |-> "", open |-> {}]

Step(name, ts, ok) == [step |-> name, timestamp |-> ts, success |-> ok]

\* an update that sets the status and replaces the steps by the new one
SetAndReplace(r, st, stp) == [r EXCEPT !.status = st, !.steps = <<stp>>]

\* an update that sets the status and pushes nothing
SetStatusOnly(r, st, stp) == [r EXCEPT !.status = st]

\* update_one with $set status and $push steps
SetAndPush(r, st, stp) == [r EXCEPT !.status = st, !.steps = Append(@, stp)]
\* update_one with $push steps only
PushOnly(r, stp) == [r EXCEPT !.steps = Append(@, stp)]

\* find_one({"whatsapp_prospect": clean_number}): a matching lead id, 0 for None
FindOne(coll, w) ==
    IF \E k \in DOMAIN coll : coll[k] = w
    THEN CHOOSE k \in DOMAIN coll : coll[k] = w /\ \A j \in DOMAIN coll : coll[j] = w => k <= j
    ELSE 0

\* the numbers the form is submitted with
FormNumbers == {<<"+", "5", "1">>, <<"1", "5">>, <<"+">>, <<"0", "5">>, <<"5">>}

\* ----------------------------------------------------------- submit_form
Respond(s, code, dup, doc) ==
    /\ response' = [response EXCEPT ![s] = [code |-> code, is_duplicate |-> dup, document_id |-> doc]]
    /\ hpc' = [hpc EXCEPT ![s] = "h_done"]

\* a submit_form that inserts the request document before it checks the API key
SubmitStartLateKeyCheck(s) ==
    /\ hpc[s] = "h_new"
    /\ \E number \in FormNumbers, key_ok \in BOOLEAN :
        LET form == [hloc[s] EXCEPT !.number = number, !.api_key_ok = key_ok,
                                    !.clean = clean_whatsapp_number(number)]
        IN
        /\ queue' = [queue EXCEPT ![s] =
                [NoRecord EXCEPT !.status = "received",
                                 !.steps = <<Step("received", clock[s], TRUE)>>]]
        /\ clock' = [clock EXCEPT ![s] = @ + 1]
        /\ hloc' = [hloc EXCEPT ![s] = form]
        /\ IF ~key_ok THEN Respond(s, 401, FALSE, 0)
           ELSE IF ~ValidWhatsapp(form.clean) THEN Respond(s, 500, FALSE, 0)
           ELSE hpc' = [hpc EXCEPT ![s] = "h_lookup"] /\ UNCHANGED response
    /\ UNCHANGED <<leads, kickoffs, bg, sent, history, rate>>

\* API key check, number validation, insert of the request document
SubmitStart(s) ==
    /\ hpc[s] = "h_new"
    /\ \E number \in FormNumbers, key_ok \in BOOLEAN :
        LET clean_number == clean_whatsapp_number(number)
            form == [hloc[s] EXCEPT !.number = number, !.api_key_ok = key_ok]
        IN
        IF ~key_ok
        THEN /\ Respond(s, 401, FALSE, 0)
             /\ hloc' = [hloc EXCEPT ![s] = form]
             /\ UNCHANGED <<queue, clock>>
        ELSE IF ~ValidWhatsapp(clean_number)
        THEN \* the HTTPException(422) is raised inside the try block and
             \* caught by `except Exception`, which raises a 500
             /\ Respond(s, 500, FALSE, 0)
             /\ hloc' = [hloc EXCEPT ![s] = form]
             /\ UNCHANGED <<queue, clock>>
        ELSE /\ queue' = [queue EXCEPT ![s] =
                    [NoRecord EXCEPT !.status = "received",
                                     !.steps = <<Step("received", clock[s], TRUE)>>]]
             /\ clock' = [clock EXCEPT ![s] = @ + 1]
             /\ hloc' = [hloc EXCEPT ![s] = [form EXCEPT !.clean = clean_number]]
             /\ hpc' = [hpc EXCEPT ![s] = "h_lookup"]
             /\ UNCHANGED response
    /\ UNCHANGED <<leads, kickoffs, bg, sent, history, rate>>

\* a lookup whose result is not acted on: the lead is inserted all the same
LookupLeadNoDedup(s) ==
    /\ hpc[s] = "h_lookup"
    /\ hloc' = [hloc EXCEPT ![s].existing = FindOne(leads, hloc[s].clean),
                            ![s].stored_at_lookup = \E k \in DOMAIN leads : leads[k] = hloc[s].clean]
    /\ hpc' = [hpc EXCEPT ![s] = "h_insert"]
    /\ UNCHANGED <<response, leads, queue, clock, kickoffs, bg, sent, history, rate>>

\* existing_lead = await app.collection.find_one(...)
LookupLead(s) ==
    /\ hpc[s] = "h_lookup"
    /\ LET existing_lead == FindOne(leads, hloc[s].clean) IN
        /\ hloc' = [hloc EXCEPT ![s].existing = existing_lead,
                                ![s].stored_at_lookup = \E k \in DOMAIN leads : leads[k] = hloc[s].clean]
        /\ hpc' = [hpc EXCEPT ![s] = IF existing_lead # 0 THEN "h_dup" ELSE "h_insert"]
    /\ UNCHANGED <<response, leads, queue, clock, kickoffs, bg, sent, history, rate>>

\* a duplicate branch that records the duplicate and goes on to the kickoff
MarkDuplicateThenKickoff(s) ==
    /\ hpc[s] = "h_dup"
    /\ queue' = [queue EXCEPT ![s] = SetAndPush(@, "duplicate", Step("duplicate_check", clock[s], TRUE))]
    /\ clock' = [clock EXCEPT ![s] = @ + 1]
    /\ hpc' = [hpc EXCEPT ![s] = "h_calling"]
    /\ UNCHANGED <<hloc, response, leads, kickoffs, bg, sent, history, rate>>

\* the duplicate branch: status duplicate, answer is_duplicate
MarkDuplicate(s) ==
    /\ hpc[s] = "h_dup"
    /\ queue' = [queue EXCEPT ![s] = SetAndPush(@, "duplicate", Step("duplicate_check", clock[s], TRUE))]
    /\ clock' = [clock EXCEPT ![s] = @ + 1]
    /\ Respond(s, 201, TRUE, hloc[s].existing)
    /\ UNCHANGED <<hloc, leads, kickoffs, bg, sent, history, rate>>

\* result = await app.collection.insert_one(document)
InsertLead(s) ==
    /\ hpc[s] = "h_insert"
    /\ leads' = Append(leads, hloc[s].clean)
    /\ hloc' = [hloc EXCEPT ![s].doc = Len(leads) + 1]
    /\ hpc' = [hpc EXCEPT ![s] = "h_stored"]
    /\ UNCHANGED <<response, queue, clock, kickoffs, bg, sent, history, rate>>

MarkStored(s) ==
    /\ hpc[s] = "h_stored"
    /\ queue' = [queue EXCEPT ![s] = SetAndPush(@, "stored", Step("mongodb_storage", clock[s], TRUE))]
    /\ clock' = [clock EXCEPT ![s] = @ + 1]
    /\ hpc' = [hpc EXCEPT ![s] = "h_calling"]
    /\ UNCHANGED <<hloc, response, leads, kickoffs, bg, sent, history, rate>>

MarkCalling(s) ==
    /\ hpc[s] = "h_calling"
    /\ queue' = [queue EXCEPT ![s] =
            SetAndPush(@, "calling_sales_builder", Step("calling_sales_builder", clock[s], TRUE))]
    /\ clock' = [clock EXCEPT ![s] = @ + 1]
    /\ hpc' = [hpc EXCEPT ![s] = "h_kickoff"]
    /\ UNCHANGED <<hloc, response, leads, kickoffs, bg, sent, history, rate>>

\* sales_builder_response = await call_sales_builder_api(...): a body with a
\* task_id, a body without one, an error dict, or an exception (then the
\* except branch writes sales_builder_api_error and answers)
KickoffOutcomes == {"task", "no_task", "error", "raised"}

\* a kickoff whose exception fails the submission with a 500
KickoffRaises500(s) ==
    /\ hpc[s] = "h_kickoff"
    /\ kickoffs' = [kickoffs EXCEPT ![s] = @ + 1]
    /\ \E out \in KickoffOutcomes :
        /\ hloc' = [hloc EXCEPT ![s].sb = out]
        /\ IF out = "raised"
           THEN /\ Respond(s, 500, FALSE, 0)
                /\ UNCHANGED <<queue, clock>>
           ELSE /\ hpc' = [hpc EXCEPT ![s] = "h_response"]
                /\ UNCHANGED <<queue, clock, response>>
    /\ UNCHANGED <<leads, bg, sent, history, rate>>

Kickoff(s) ==
    /\ hpc[s] = "h_kickoff"
    /\ kickoffs' = [kickoffs EXCEPT ![s] = @ + 1]
    /\ \E out \in KickoffOutcomes :
        /\ hloc' = [hloc EXCEPT ![s].sb = out]
        /\ IF out = "raised"
           THEN /\ queue' = [queue EXCEPT ![s] =
                       SetAndPush(@, "sales_builder_api_error", Step("sales_builder_api_error", clock[s], FALSE))]
                /\ clock' = [clock EXCEPT ![s] = @ + 1]
                /\ Respond(s, 201, FALSE, hloc[s].doc)
           ELSE /\ hpc' = [hpc EXCEPT ![s] = "h_response"]
                /\ UNCHANGED <<queue, clock, response>>
    /\ UNCHANGED <<leads, bg, sent, history, rate>>

MarkResponse(s) ==
    /\ hpc[s] = "h_response"
    /\ queue' = [queue EXCEPT ![s] =
            SetAndPush(@, "sales_builder_response_received",
                       Step("sales_builder_response", clock[s], hloc[s].sb # "error"))]
    /\ clock' = [clock EXCEPT ![s] = @ + 1]
    /\ IF hloc[s].sb = "task"
       THEN hpc' = [hpc EXCEPT ![s] = "h_taskid"] /\ UNCHANGED response
       ELSE Respond(s, 201, FALSE, hloc[s].doc)
    /\ UNCHANGED <<hloc, leads, kickoffs, bg, sent, history, rate>>

\* $set task_id, $push task_id_received (the status is not set)
MarkTaskId(s) ==
    /\ hpc[s] = "h_taskid"
    /\ queue' = [queue EXCEPT ![s] =
            [PushOnly(@, Step("task_id_received", clock[s], TRUE)) EXCEPT !.task_id = s]]
    /\ clock' = [clock EXCEPT ![s] = @ + 1]
    /\ hpc' = [hpc EXCEPT ![s] = "h_evo"]
    /\ UNCHANGED <<hloc, response, leads, kickoffs, bg, sent, history, rate>>

\* evo_config_present = all([EVO_SUBDOMAIN, EVO_TOKEN, EVO_INSTANCE])
EvoCheck(s) ==
    /\ hpc[s] = "h_evo"
    /\ clock' = [clock EXCEPT ![s] = @ + 1]
    /\ \E evo_config_present \in BOOLEAN :
        IF ~evo_config_present
        THEN /\ queue' = [queue EXCEPT ![s] =
                    SetAndPush(@, "evolution_api_config_missing", Step("evolution_api_check", clock[s], FALSE))]
             /\ Respond(s, 201, FALSE, hloc[s].doc)
        ELSE /\ queue' = [queue EXCEPT ![s] =
                    SetAndPush(@, "processing_task", Step("evolution_api_check", clock[s], TRUE))]
             /\ hpc' = [hpc EXCEPT ![s] = "h_spawn"]
             /\ UNCHANGED response
    /\ UNCHANGED <<hloc, leads, kickoffs, bg, sent, history, rate>>

\* asyncio.create_task(...), then the handler builds its last update (reading
\* the clock) and awaits it; the created task runs from that await on
SpawnTask(s) ==
    /\ hpc[s] = "h_spawn"
    /\ bg' = [bg EXCEPT ![s] = [NoFlow EXCEPT !.pc = "b_start"]]
    /\ hloc' = [hloc EXCEPT ![s].push_ts = clock[s]]
    /\ clock' = [clock EXCEPT ![s] = @ + 1]
    /\ hpc' = [hpc EXCEPT ![s] = "h_push"]
    /\ UNCHANGED <<response, leads, queue, kickoffs, sent, history, rate>>

\* a last update of the handler that sets the status as well
ApplyPushSetsStatus(s) ==
    /\ hpc[s] = "h_push"
    /\ queue' = [queue EXCEPT ![s] =
            SetAndPush(@, "task_processing_started",
                       Step("task_processing_started", hloc[s].push_ts, TRUE))]
    /\ Respond(s, 201, FALSE, hloc[s].doc)
    /\ UNCHANGED <<hloc, leads, clock, kickoffs, bg, sent, history, rate>>

\* the store applies the handler's last update ($push only); the handler answers
ApplyPush(s) ==
    /\ hpc[s] = "h_push"
    /\ queue' = [queue EXCEPT ![s] =
            PushOnly(@, Step("task_processing_started", hloc[s].push_ts, TRUE))]
    /\ Respond(s, 201, FALSE, hloc[s].doc)
    /\ UNCHANGED <<hloc, leads, clock, kickoffs, bg, sent, history, rate>>


\* ------------------------------------------- process_sales_builder_task
\* An update_one of the flow either is applied or raises (the store is
\* unreachable); the timestamp has been read in both cases.
UpdateOutcomes == BOOLEAN

\* the first update of the flow: status task_processing_started; an exception
\* of it is logged and the flow goes on (request_queue stays set)
StartProcessing(s) ==
    /\ bg[s].pc = "b_start"
    /\ \E applied \in UpdateOutcomes :
        /\ queue' = [queue EXCEPT ![s] =
                IF applied
                THEN SetAndPush(@, "task_processing_started", Step("task_processing_started", clock[s], TRUE))
                ELSE @]
        /\ bg' = [bg EXCEPT ![s].pc = "b_checking", ![s].has_queue = TRUE,
                            ![s].lost = ~applied,
                            ![s].open = @ \cup {"mongodb_client"}]
    /\ clock' = [clock EXCEPT ![s] = @ + 1]
    /\ UNCHANGED <<hpc, hloc, response, leads, kickoffs, sent, history, rate>>

\* checker created; status checking_task_status; check_and_process_task called
MarkChecking(s) ==
    /\ bg[s].pc = "b_checking"
    /\ clock' = [clock EXCEPT ![s] = @ + 1]
    /\ \E applied \in UpdateOutcomes :
        IF applied
        THEN /\ queue' = [queue EXCEPT ![s] =
                    SetAndPush(@, "checking_task_status", Step("checking_task_status", clock[s], TRUE))]
             /\ bg' = [bg EXCEPT ![s].pc = "poll", ![s].polls = 1,
                                 ![s].open = @ \cup {"client"}]
        ELSE \* raised inside the try of process_sales_builder_task
             /\ bg' = [bg EXCEPT ![s].pc = "ps_except", ![s].lost = TRUE,
                                 ![s].open = @ \cup {"client"}]
             /\ UNCHANGED queue
    /\ UNCHANGED <<hpc, hloc, response, leads, kickoffs, sent, history, rate>>

\* ------------------------------------------------------ check_task_status
\* what the status endpoint answers in the whole-system specification
SourceRecipients == {<<"5", "1">>, <<"+">>}
SourceMsgLists == {<<>>, <<"a">>, <<"a", "b">>}
SourceBodies == {Body(TRUE, TRUE, w, m) : w \in SourceRecipients, m \in SourceMsgLists}

\* outcomes of `await self.client.get(url, timeout=self.timeout)`
ProbeKinds == {"200", "403", "other", "timeout", "request_error"}

\* the pc a call of check_task_status returns to
Returned(pc) == IF pc = "poll" THEN "polled" ELSE "repolled"

\* what a probe got, as the ghost `seen` records it
Outcome(kind, response_data) ==
    IF kind = "200"
    THEN IF HasMessages(response_data) THEN "messages" ELSE "empty"
    ELSE kind

\* a poller that reports an error when the budget runs out on empty answers
ProbeErrorOnExhaustion(s) ==
    /\ bg[s].pc \in {"poll", "repoll"}
    /\ bg[s].retries < max_retries
    /\ \E kind \in ProbeKinds, response_data \in SourceBodies :
        LET f == [bg[s] EXCEPT !.probes = IF @ < MaxProbes THEN @ + 1 ELSE @,
                               !.parity = 1 - @,
                               !.seen = @ \cup {Outcome(kind, response_data)}] IN
        CASE kind = "200" /\ HasMessages(response_data) ->
                \* return response_data with status_code
                bg' = [bg EXCEPT ![s] =
                        [f EXCEPT !.task_data = [response_data EXCEPT !.status_code = 200],
                                  !.pc = Returned(bg[s].pc)]]
          [] kind = "200" /\ ~HasMessages(response_data) ->
                IF bg[s].retries + 1 >= max_retries
                THEN bg' = [bg EXCEPT ![s] =
                        [f EXCEPT !.retries = @ + 1,
                                  !.task_data = ErrorResult("exhausted"),
                                  !.pc = Returned(bg[s].pc)]]
                ELSE bg' = [bg EXCEPT ![s] = [f EXCEPT !.retries = @ + 1, !.sleeps = @ + 1]]
          [] kind = "403" ->
                bg' = [bg EXCEPT ![s] =
                        [f EXCEPT !.task_data = ErrorResult("403"), !.poll_failed = TRUE,
                                  !.pc = Returned(bg[s].pc)]]
          [] kind = "other" ->
                \* logged; neither retries nor a sleep: the loop probes again
                bg' = [bg EXCEPT ![s] = f]
          [] kind \in {"timeout", "request_error"} ->
                IF bg[s].retries + 1 < max_retries
                THEN bg' = [bg EXCEPT ![s] = [f EXCEPT !.retries = @ + 1, !.sleeps = @ + 1]]
                ELSE bg' = [bg EXCEPT ![s] =
                        [f EXCEPT !.retries = @ + 1, !.task_data = ErrorResult(kind),
                                  !.poll_failed = TRUE, !.pc = Returned(bg[s].pc)]]
    /\ UNCHANGED <<hpc, hloc, response, leads, queue, clock, kickoffs, sent, history, rate>>

\* One iteration of `while retries < self.max_retries`.
Probe(s) ==
    /\ bg[s].pc \in {"poll", "repoll"}
    /\ bg[s].retries < max_retries
    /\ \E kind \in ProbeKinds, response_data \in SourceBodies :
        LET f == [bg[s] EXCEPT !.probes = IF @ < MaxProbes THEN @ + 1 ELSE @,
                               !.parity = 1 - @,
                               !.seen = @ \cup {Outcome(kind, response_data)}] IN
        CASE kind = "200" /\ HasMessages(response_data) ->
                \* return response_data with status_code
                bg' = [bg EXCEPT ![s] =
                        [f EXCEPT !.task_data = [response_data EXCEPT !.status_code = 200],
                                  !.pc = Returned(bg[s].pc)]]
          [] kind = "200" /\ ~HasMessages(response_data) ->
                IF bg[s].retries + 1 >= max_retries
                THEN bg' = [bg EXCEPT ![s] =
                        [f EXCEPT !.retries = @ + 1,
                                  !.task_data = [response_data EXCEPT !.status_code = 200],
                                  !.pc = Returned(bg[s].pc)]]
                ELSE bg' = [bg EXCEPT ![s] = [f EXCEPT !.retries = @ + 1, !.sleeps = @ + 1]]
          [] kind = "403" ->
                bg' = [bg EXCEPT ![s] =
                        [f EXCEPT !.task_data = ErrorResult("403"), !.poll_failed = TRUE,
                                  !.pc = Returned(bg[s].pc)]]
          [] kind = "other" ->
                \* logged; neither retries nor a sleep: the loop probes again
                bg' = [bg EXCEPT ![s] = f]
          [] kind \in {"timeout", "request_error"} ->
                IF bg[s].retries + 1 < max_retries
                THEN bg' = [bg EXCEPT ![s] = [f EXCEPT !.retries = @ + 1, !.sleeps = @ + 1]]
                ELSE bg' = [bg EXCEPT ![s] =
                        [f EXCEPT !.retries = @ + 1, !.task_data = ErrorResult(kind),
                                  !.poll_failed = TRUE, !.pc = Returned(bg[s].pc)]]
    /\ UNCHANGED <<hpc, hloc, response, leads, queue, clock, kickoffs, sent, history, rate>>

\* ------------------------------------------------- check_and_process_task
\* `"403" in task_data.get('error', '')`
Is403(td) == td.error = "403"

\* a messages_stored update that leaves message_count as it was
StoreMessagesNoCount(r, td, ts) ==
    IF td.has_result /\ td.msg_resposta # <<>>
    THEN [PushOnly(r, Step("messages_stored", ts, TRUE)) EXCEPT !.messages = td.msg_resposta]
    ELSE r

\* the messages_stored update, made when the result carries messages
StoreMessages(r, td, ts) ==
    IF td.has_result /\ td.msg_resposta # <<>>
    THEN [PushOnly(r, Step("messages_stored", ts, TRUE))
            EXCEPT !.messages = td.msg_resposta, !.message_count = Len(td.msg_resposta)]
    ELSE r

\* a poll without error: store the messages, go on to process_task_response
ToDispatch(s) ==
    IF bg[s].has_queue /\ HasMessages(bg[s].task_data)
    THEN /\ clock' = [clock EXCEPT ![s] = @ + 1]
         /\ \E applied \in UpdateOutcomes :
            IF applied
            THEN /\ queue' = [queue EXCEPT ![s] = StoreMessages(@, bg[s].task_data, clock[s])]
                 /\ bg' = [bg EXCEPT ![s].pc = "dispatch", ![s].stored = "ok"]
            ELSE \* caught by the try around this update and logged
                 /\ bg' = [bg EXCEPT ![s].pc = "dispatch", ![s].stored = "failed",
                                     ![s].lost = TRUE]
                 /\ UNCHANGED queue
    ELSE /\ bg' = [bg EXCEPT ![s].pc = "dispatch"]
         /\ UNCHANGED <<queue, clock>>

\* an error branch that sets the status and pushes no step
FailWithStatusOnly(s, tag) ==
    IF bg[s].has_queue
    THEN /\ clock' = [clock EXCEPT ![s] = @ + 1]
         /\ \E applied \in UpdateOutcomes :
            IF applied
            THEN /\ queue' = [queue EXCEPT ![s].status = tag]
                 /\ bg' = [bg EXCEPT ![s].pc = "cp_done", ![s].success = FALSE]
            ELSE /\ bg' = [bg EXCEPT ![s].pc = "cp_except", ![s].lost = TRUE]
                 /\ UNCHANGED queue
    ELSE /\ bg' = [bg EXCEPT ![s].pc = "cp_done", ![s].success = FALSE]
         /\ UNCHANGED <<queue, clock>>

\* an error that ends check_and_process_task: status and step, return False
FailWith(s, tag) ==
    IF bg[s].has_queue
    THEN /\ clock' = [clock EXCEPT ![s] = @ + 1]
         /\ \E applied \in UpdateOutcomes :
            IF applied
            THEN /\ queue' = [queue EXCEPT ![s] = SetAndPush(@, tag, Step(tag, clock[s], FALSE))]
                 /\ bg' = [bg EXCEPT ![s].pc = "cp_done", ![s].success = FALSE]
            ELSE /\ bg' = [bg EXCEPT ![s].pc = "cp_except", ![s].lost = TRUE]
                 /\ UNCHANGED queue
    ELSE /\ bg' = [bg EXCEPT ![s].pc = "cp_done", ![s].success = FALSE]
         /\ UNCHANGED <<queue, clock>>

\* os.getenv("SALES_BUILDER_API_KEY_ALT"): unset (or empty), the key the
\* checker already uses, or another key
AltKeys == {"", "key", "alt"}

\* after the first check_task_status
AfterPoll(s) ==
    /\ bg[s].pc = "polled"
    /\ IF HasError(bg[s].task_data)
       THEN IF Is403(bg[s].task_data)
            THEN \E alt_api_key \in AltKeys :
                    IF alt_api_key # ""
                    THEN \* new key, new client, check_task_status again
                         /\ bg' = [bg EXCEPT ![s].pc = "repoll", ![s].refreshed = TRUE,
                                             ![s].api_key = alt_api_key,
                                             ![s].open = (@ \ {"client"}) \cup {"replacement_client"},
                                             ![s].rejected = bg[s].api_key,
                                             ![s].retries = 0, ![s].probes = 0, ![s].parity = 0,
                                             ![s].sleeps = 0, ![s].seen = {},
                                             ![s].polls = @ + 1, ![s].poll_failed = FALSE]
                         /\ UNCHANGED <<queue, clock>>
                    ELSE FailWith(s, "api_key_error")
            ELSE FailWith(s, "task_check_error")
       ELSE ToDispatch(s)
    /\ UNCHANGED <<hpc, hloc, response, leads, kickoffs, sent, history, rate>>

\* after the check_task_status made with the alternative key
AfterRepoll(s) ==
    /\ bg[s].pc = "repolled"
    /\ IF HasError(bg[s].task_data)
       THEN FailWith(s, "api_key_error")
       ELSE ToDispatch(s)
    /\ UNCHANGED <<hpc, hloc, response, leads, kickoffs, sent, history, rate>>

\* -------------------------------------------------- process_task_response
\* process_task_response returns `ok` without entering the loop
ReturnFrom(f, ok) == [f EXCEPT !.pc = "dispatched", !.success = ok]

\* the recipient the loop sends to: <<>> when the checks reject it
NormalizedRecipient(w) ==
    IF w = <<>> THEN <<>>
    ELSE IF IsDigit(w) THEN w
    ELSE IF IsDigit(StripNonDigits(w)) THEN StripNonDigits(w)
    ELSE <<>>

\* a process_task_response that does not look at is_configured
DispatchBeginUnconfigured(s) ==
    /\ bg[s].pc = "dispatch"
    /\ LET td == bg[s].task_data
           fallback == td.status_code = 200 /\ td.msg_resposta = <<>>
           messages == IF fallback THEN FallbackMessages ELSE td.msg_resposta
           whatsapp == NormalizedRecipient(td.whatsapp)
       IN
        IF HasError(td) \/ ~td.has_task_id \/ ~td.has_result
        THEN bg' = [bg EXCEPT ![s] = ReturnFrom([@ EXCEPT !.given = td], FALSE)]
        ELSE IF messages = <<>>
        THEN bg' = [bg EXCEPT ![s] = ReturnFrom([@ EXCEPT !.given = td], FALSE)]
        ELSE LET f0 == IF fallback
                      THEN [bg[s] EXCEPT !.task_data.msg_resposta = messages,
                                         !.task_data.fallback_messages_used = TRUE]
                      ELSE bg[s]
                 f == [f0 EXCEPT !.given = td]
             IN IF whatsapp = <<>>
                THEN bg' = [bg EXCEPT ![s] = ReturnFrom(f, FALSE)]
                ELSE bg' = [bg EXCEPT ![s] =
                        [f EXCEPT !.pc = "sending", !.whatsapp = whatsapp,
                                  !.messages = messages, !.i = 1,
                                  !.all_messages_sent_successfully = TRUE]]
    /\ UNCHANGED <<hpc, hloc, response, leads, queue, clock, kickoffs, sent, history, rate>>

\* from the entry of process_task_response to the head of the send loop
DispatchBegin(s) ==
    /\ bg[s].pc = "dispatch"
    /\ LET td == bg[s].task_data
           fallback == td.status_code = 200 /\ td.msg_resposta = <<>>
           messages == IF fallback THEN FallbackMessages ELSE td.msg_resposta
           whatsapp == NormalizedRecipient(td.whatsapp)
       IN
        IF HasError(td) \/ ~bg[s].is_configured \/ ~td.has_task_id \/ ~td.has_result
        THEN bg' = [bg EXCEPT ![s] = ReturnFrom([@ EXCEPT !.given = td], FALSE)]
        ELSE IF messages = <<>>
        THEN bg' = [bg EXCEPT ![s] = ReturnFrom([@ EXCEPT !.given = td], FALSE)]
        ELSE LET f0 == IF fallback
                      THEN [bg[s] EXCEPT !.task_data.msg_resposta = messages,
                                         !.task_data.fallback_messages_used = TRUE]
                      ELSE bg[s]
                 f == [f0 EXCEPT !.given = td]
             IN IF whatsapp = <<>>
                THEN bg' = [bg EXCEPT ![s] = ReturnFrom(f, FALSE)]
                ELSE bg' = [bg EXCEPT ![s] =
                        [f EXCEPT !.pc = "sending", !.whatsapp = whatsapp,
                                  !.messages = messages, !.i = 1,
                                  !.all_messages_sent_successfully = TRUE]]
    /\ UNCHANGED <<hpc, hloc, response, leads, queue, clock, kickoffs, sent, history, rate>>

Call(number, text, result) == [number |-> number, text |-> text, result |-> result]

\* a call of insert_chat_history: the document, and whether the store took it
\* (the function returns a dict either way and never raises)
Inserted(whatsapp, message, ok) ==
    [session_id |-> whatsapp, msg_resposta |-> message, inserted |-> ok]

\* insert_chat_history creates its AsyncIOMotorClient at its first call
\* (self.mongodb is None until then) and keeps it in self.mongodb_client
WithHistoryClient(f) == [f EXCEPT !.open = @ \cup {"history_client"}]

\* the flow after iteration i of the loop: the next iteration, or the return
\* of all_messages_sent_successfully after the last one
NextMessage(f, allOk) ==
    IF f.i + 1 > Len(f.messages)
    THEN [f EXCEPT !.i = @ + 1, !.all_messages_sent_successfully = allOk,
                   !.pc = "dispatched", !.success = allOk]
    ELSE [f EXCEPT !.i = @ + 1, !.all_messages_sent_successfully = allOk, !.pc = "sending"]

\* send_text_message reaches requests.post for this text
Posts(m) == Sendable(m) /\ ~WhitespaceOnly(m)

\* send_text_message has called requests.post(url, ..., timeout=30): the call
\* is synchronous, the flow is inside it (pc "in_send") until the answer or
\* the timeout
SendBegin(s) ==
    /\ bg[s].pc = "sending"
    /\ bg[s].i <= Len(bg[s].messages)
    /\ Posts(bg[s].messages[bg[s].i])
    /\ bg' = [bg EXCEPT ![s].pc = "in_send"]
    /\ UNCHANGED <<hpc, hloc, response, leads, queue, clock, kickoffs, sent, history, rate>>

\* a send loop that gives up with False when insert_chat_history reports an error
DispatchMessageHistoryFatal(s) ==
    /\ bg[s].pc \in {"sending", "in_send"}
    /\ bg[s].i <= Len(bg[s].messages)
    /\ bg[s].pc = IF Posts(bg[s].messages[bg[s].i]) THEN "in_send" ELSE "sending"
    /\ LET f == bg[s]
           message == f.messages[f.i]
       IN
        IF ~Sendable(message)
        THEN \* not sent, not counted as a failure
             /\ bg' = [bg EXCEPT ![s] = NextMessage(f, f.all_messages_sent_successfully)]
             /\ UNCHANGED <<sent, history>>
        ELSE IF WhitespaceOnly(message)
        THEN \* estimate_typing_time divides by zero outside the try block of
             \* send_text_message; process_task_response catches it and returns False
             /\ sent' = [sent EXCEPT ![s] = Append(@, Call(f.whatsapp, message, "raised"))]
             /\ bg' = [bg EXCEPT ![s] = ReturnFrom(f, FALSE)]
             /\ UNCHANGED history
        ELSE \E send_ok \in BOOLEAN, history_ok \in BOOLEAN :
                IF ~send_ok
                THEN /\ sent' = [sent EXCEPT ![s] = Append(@, Call(f.whatsapp, message, "error"))]
                     /\ bg' = [bg EXCEPT ![s] = NextMessage(f, FALSE)]
                     /\ UNCHANGED history
                ELSE /\ sent' = [sent EXCEPT ![s] = Append(@, Call(f.whatsapp, message, "ok"))]
                     /\ history' = [history EXCEPT ![s] =
                            Append(@, Inserted(f.whatsapp, message, history_ok))]
                     /\ bg' = [bg EXCEPT ![s] =
                            IF history_ok
                            THEN NextMessage(WithHistoryClient(f), f.all_messages_sent_successfully)
                            ELSE ReturnFrom(WithHistoryClient(f), FALSE)]
    /\ UNCHANGED <<hpc, hloc, response, leads, queue, clock, kickoffs, rate>>

\* a send loop that records the message in the history whether or not the send succeeded
DispatchMessageHistoryAlways(s) ==
    /\ bg[s].pc \in {"sending", "in_send"}
    /\ bg[s].i <= Len(bg[s].messages)
    /\ bg[s].pc = IF Posts(bg[s].messages[bg[s].i]) THEN "in_send" ELSE "sending"
    /\ LET f == bg[s]
           message == f.messages[f.i]
       IN
        IF ~Sendable(message)
        THEN \* not sent, not counted as a failure
             /\ bg' = [bg EXCEPT ![s] = NextMessage(f, f.all_messages_sent_successfully)]
             /\ UNCHANGED <<sent, history>>
        ELSE IF WhitespaceOnly(message)
        THEN \* estimate_typing_time divides by zero outside the try block of
             \* send_text_message; process_task_response catches it and returns False
             /\ sent' = [sent EXCEPT ![s] = Append(@, Call(f.whatsapp, message, "raised"))]
             /\ bg' = [bg EXCEPT ![s] = ReturnFrom(f, FALSE)]
             /\ UNCHANGED history
        ELSE \E send_ok \in BOOLEAN, history_ok \in BOOLEAN :
                IF ~send_ok
                THEN /\ sent' = [sent EXCEPT ![s] = Append(@, Call(f.whatsapp, message, "error"))]
                     /\ bg' = [bg EXCEPT ![s] = NextMessage(f, FALSE)]
                     /\ history' = [history EXCEPT ![s] =
                            Append(@, Inserted(f.whatsapp, message, history_ok))]
                ELSE /\ sent' = [sent EXCEPT ![s] = Append(@, Call(f.whatsapp, message, "ok"))]
                     /\ history' = [history EXCEPT ![s] =
                            Append(@, Inserted(f.whatsapp, message, history_ok))]
                     /\ bg' = [bg EXCEPT ![s] =
                            NextMessage(WithHistoryClient(f), f.all_messages_sent_successfully)]
    /\ UNCHANGED <<hpc, hloc, response, leads, queue, clock, kickoffs, rate>>

\* one iteration of `for i, message in enumerate(messages, 1)`: a message
\* that is passed over, a send that raises before the request, or the end of
\* the request SendBegin started, with the history write that follows it
DispatchMessage(s) ==
    /\ bg[s].pc \in {"sending", "in_send"}
    /\ bg[s].i <= Len(bg[s].messages)
    /\ bg[s].pc = IF Posts(bg[s].messages[bg[s].i]) THEN "in_send" ELSE "sending"
    /\ LET f == bg[s]
           message == f.messages[f.i]
       IN
        IF ~Sendable(message)
        THEN \* not sent, not counted as a failure
             /\ bg' = [bg EXCEPT ![s] = NextMessage(f, f.all_messages_sent_successfully)]
             /\ UNCHANGED <<sent, history>>
        ELSE IF WhitespaceOnly(message)
        THEN \* estimate_typing_time divides by zero outside the try block of
             \* send_text_message; process_task_response catches it and returns False
             /\ sent' = [sent EXCEPT ![s] = Append(@, Call(f.whatsapp, message, "raised"))]
             /\ bg' = [bg EXCEPT ![s] = ReturnFrom(f, FALSE)]
             /\ UNCHANGED history
        ELSE \E send_ok \in BOOLEAN, history_ok \in BOOLEAN :
                IF ~send_ok
                THEN /\ sent' = [sent EXCEPT ![s] = Append(@, Call(f.whatsapp, message, "error"))]
                     /\ bg' = [bg EXCEPT ![s] = NextMessage(f, FALSE)]
                     /\ UNCHANGED history
                ELSE /\ sent' = [sent EXCEPT ![s] = Append(@, Call(f.whatsapp, message, "ok"))]
                     /\ history' = [history EXCEPT ![s] =
                            Append(@, Inserted(f.whatsapp, message, history_ok))]
                     /\ bg' = [bg EXCEPT ![s] =
                            NextMessage(WithHistoryClient(f), f.all_messages_sent_successfully)]
    /\ UNCHANGED <<hpc, hloc, response, leads, queue, clock, kickoffs, rate>>

\* check_and_process_task after process_task_response: completed or
\* message_send_failed
FinalStatus(s) ==
    /\ bg[s].pc = "dispatched"
    /\ bg[s].has_queue
    /\ clock' = [clock EXCEPT ![s] = @ + 1]
    /\ \E applied \in UpdateOutcomes :
        IF applied
        THEN /\ queue' = [queue EXCEPT ![s] =
                    IF bg[s].success
                    THEN SetAndPush(@, "completed", Step("messages_sent", clock[s], TRUE))
                    ELSE SetAndPush(@, "message_send_failed", Step("message_send_failed", clock[s], FALSE))]
             /\ bg' = [bg EXCEPT ![s].pc = "cp_done"]
        ELSE /\ bg' = [bg EXCEPT ![s].pc = "cp_except", ![s].lost = TRUE]
             /\ UNCHANGED queue
    /\ UNCHANGED <<hpc, hloc, response, leads, kickoffs, sent, history, rate>>

\* `except Exception` of check_and_process_task: status processing_exception,
\* return False; this update is not guarded, its exception leaves the method
CheckExcept(s) ==
    /\ bg[s].pc = "cp_except"
    /\ clock' = [clock EXCEPT ![s] = @ + 1]
    /\ \E applied \in UpdateOutcomes :
        IF applied
        THEN /\ queue' = [queue EXCEPT ![s] =
                    SetAndPush(@, "processing_exception", Step("processing_exception", clock[s], FALSE))]
             /\ bg' = [bg EXCEPT ![s].pc = "cp_done", ![s].success = FALSE]
        ELSE /\ bg' = [bg EXCEPT ![s].pc = "ps_except", ![s].lost = TRUE]
             /\ UNCHANGED queue
    /\ UNCHANGED <<hpc, hloc, response, leads, kickoffs, sent, history, rate>>

\* the finally block of process_sales_builder_task: checker.close() closes
\* self.client (the httpx client in use), then mongodb_client.close()
Closed(open) == open \ {"client", "replacement_client", "mongodb_client"}

\* process_sales_builder_task after check_and_process_task returned:
\* status task_processing_completed, task_result; then the clients are closed
WrapUp(s) ==
    /\ bg[s].pc = "cp_done"
    /\ clock' = [clock EXCEPT ![s] = @ + 1]
    /\ \E applied \in UpdateOutcomes :
        IF applied
        THEN /\ queue' = [queue EXCEPT ![s] =
                    [SetAndPush(@, "task_processing_completed",
                                Step("task_processing_completed", clock[s], bg[s].success))
                        EXCEPT !.task_result = IF bg[s].success THEN "true" ELSE "false"]]
             /\ bg' = [bg EXCEPT ![s].pc = "done", ![s].open = Closed(@)]
        ELSE /\ bg' = [bg EXCEPT ![s].pc = "ps_except", ![s].lost = TRUE]
             /\ UNCHANGED queue
    /\ UNCHANGED <<hpc, hloc, response, leads, kickoffs, sent, history, rate>>

\* `except Exception` of process_sales_builder_task: status
\* task_processing_error, return False; an exception of this update leaves
\* the function (pc "raised") after the finally block
TaskExcept(s) ==
    /\ bg[s].pc = "ps_except"
    /\ clock' = [clock EXCEPT ![s] = @ + 1]
    /\ \E applied \in UpdateOutcomes :
        IF applied
        THEN /\ queue' = [queue EXCEPT ![s] =
                    SetAndPush(@, "task_processing_error", Step("task_processing_error", clock[s], FALSE))]
             /\ bg' = [bg EXCEPT ![s].pc = "done", ![s].success = FALSE,
                                 ![s].open = Closed(@)]
        ELSE /\ bg' = [bg EXCEPT ![s].pc = "raised", ![s].success = FALSE, ![s].lost = TRUE,
                                 ![s].open = Closed(@)]
             /\ UNCHANGED queue
    /\ UNCHANGED <<hpc, hloc, response, leads, kickoffs, sent, history, rate>>

\* ------------------------------------------------------------ RateLimiter
\* RateLimiter(times, minutes): the code's call is RateLimiter(times=200, minutes=1)
times == 2
\* the window, in ticks of the wall clock
window == 2
\* the wall clock runs from 0 to MaxTime
MaxTime == 3

\* concurrent requests of one client IP to one path
RateRequests == 1..(times + 1)

\* rate_limits holds at most one document per (client_ip, path): the index
\* on the pair is unique
NoRateRecord == [exists |-> FALSE, count |-> 0, first_request |-> 0]

\* stored: the document of rate_limits; time: datetime.utcnow(); of each call
\* of __call__: the await it is at, its `now`, the record find_one gave it
NoRate ==
    [stored |-> NoRateRecord, time |-> 0,
     pc |-> [r \in RateRequests |-> "r_new"],
     now |-> [r \in RateRequests |-> 0],
     record |-> [r \in RateRequests |-> NoRateRecord],
     starts |-> {}]

Frame == <<hpc, hloc, response, leads, queue, clock, kickoffs, bg, sent, history>>

\* time passes
RateTick ==
    /\ rate.time < MaxTime
    /\ rate' = [rate EXCEPT !.time = @ + 1]
    /\ UNCHANGED Frame

\* now = datetime.utcnow(); record = await ...find_one({client_ip, path})
RateFind(r) ==
    /\ rate.pc[r] = "r_new"
    /\ rate' = [rate EXCEPT !.now[r] = rate.time, !.record[r] = rate.stored,
                            !.pc[r] = "r_decide"]
    /\ UNCHANGED Frame

\* the rest of __call__, on the record find_one gave: insert_one, 429, or one
\* of the two update_one; "r_ok" = the dependency returned, the request goes on
RateDecide(r) ==
    /\ rate.pc[r] = "r_decide"
    /\ LET record == rate.record[r]
           now == rate.now[r]
           time_diff == now - record.first_request
       IN
        IF ~record.exists
        THEN IF rate.stored.exists
             THEN \* insert_one raises DuplicateKeyError: the request fails
                  rate' = [rate EXCEPT !.pc[r] = "r_error"]
             ELSE rate' = [rate EXCEPT
                            !.stored = [exists |-> TRUE, count |-> 1, first_request |-> now],
                            !.starts = @ \cup {now},
                            !.pc[r] = "r_ok"]
        ELSE IF time_diff < window /\ record.count >= times
        THEN rate' = [rate EXCEPT !.pc[r] = "r_429"]
        ELSE IF time_diff >= window
        THEN rate' = [rate EXCEPT
                        !.stored = [exists |-> TRUE, count |-> 1, first_request |-> now],
                        !.starts = @ \cup {now},
                        !.pc[r] = "r_ok"]
        ELSE \* $inc count on the stored document
             rate' = [rate EXCEPT !.stored.count = @ + 1, !.pc[r] = "r_ok"]
    /\ UNCHANGED Frame

\* --------------------------------------------------------- specifications
\* what crm_db may hold before the submissions the model follows
InitialLeads == {<<>>, << <<"5", "1">> >>}

InitStore ==
    /\ hloc = [s \in Submissions |-> NoLocals]
    /\ response = [s \in Submissions |-> NoResponse]
    /\ queue = [s \in Submissions |-> NoRecord]
    /\ clock = [s \in Submissions |-> 1]
    /\ kickoffs = [s \in Submissions |-> 0]
    /\ sent = [s \in Submissions |-> <<>>]
    /\ history = [s \in Submissions |-> <<>>]
    /\ rate = NoRate

Intake(s) ==
    \/ SubmitStart(s) \/ LookupLead(s) \/ MarkDuplicate(s) \/ InsertLead(s)
    \/ MarkStored(s) \/ MarkCalling(s) \/ Kickoff(s) \/ MarkResponse(s)
    \/ MarkTaskId(s) \/ EvoCheck(s) \/ SpawnTask(s) \/ ApplyPush(s)

Flow(s) ==
    \/ StartProcessing(s) \/ MarkChecking(s) \/ Probe(s)
    \/ AfterPoll(s) \/ AfterRepoll(s)
    \/ DispatchBegin(s) \/ SendBegin(s) \/ DispatchMessage(s)
    \/ FinalStatus(s) \/ CheckExcept(s)
    \/ WrapUp(s) \/ TaskExcept(s)

\* Spec: one submission from the form to the end of its background flow,
\* against a lead collection that may already hold its number.
Init ==
    /\ InitStore
    /\ hpc = [s \in Submissions |-> IF s = 1 THEN "h_new" ELSE "h_none"]
    /\ leads \in InitialLeads
    /\ bg = [s \in Submissions |-> NoFlow]

Next == \E s \in Submissions : Intake(s) \/ Flow(s)

Spec == Init /\ [][Next]_vars

\* SpecLive: Spec with the scheduling the event loop gives a flow: every
\* await of a flow ends (the HTTP calls have a timeout, the sleeps are finite)
\* and the flow is resumed.
SpecLive == Spec /\ \A s \in Submissions : WF_vars(Flow(s))

\* SpecIntake: the submissions arrive concurrently; submit_form of each runs
\* to its answer, every await a point where the other one may run.
InitIntake ==
    /\ InitStore
    /\ hpc = [s \in Submissions |-> "h_new"]
    /\ leads \in InitialLeads
    /\ bg = [s \in Submissions |-> NoFlow]

NextIntake == \E s \in Submissions : Intake(s)

SpecIntake == InitIntake /\ [][NextIntake]_vars

\* SpecDispatch: process_task_response called on a task data dict, as the
\* tests call it (no request document).
DispatchRecipients == SeqsUpTo(Chars, MaxRecipientLen)
DispatchMsgLists == SeqsUpTo(Texts, MaxMsgs)

DispatchInputs ==
    {ErrorResult("timeout")}
    \cup {[Body(TRUE, TRUE, w, m) EXCEPT !.status_code = 200] :
            w \in DispatchRecipients, m \in {<<>>, <<"a", "b">>}}
    \cup {[Body(hasId, hasResult, <<"5", "1">>, m) EXCEPT !.status_code = sc] :
            hasId \in BOOLEAN, hasResult \in BOOLEAN, m \in DispatchMsgLists, sc \in {0, 200}}

InitDispatch ==
    /\ InitStore
    /\ hpc = [s \in Submissions |-> "h_none"]
    /\ leads = <<>>
    /\ \E td \in DispatchInputs, configured \in BOOLEAN :
        bg = [s \in Submissions |->
                IF s = 1
                THEN [NoFlow EXCEPT !.pc = "dispatch", !.task_data = td,
                                    !.is_configured = configured]
                ELSE NoFlow]

NextDispatch == \E s \in Submissions : DispatchBegin(s) \/ SendBegin(s) \/ DispatchMessage(s)

SpecDispatch == InitDispatch /\ [][NextDispatch]_vars

\* SpecSend: the flow of submission 1 dispatches a result while submission 2
\* arrives at submit_form, both coroutines of the one event loop.  (In the
\* other specifications at most one flow exists, so no coroutine ever waits
\* for another's synchronous call.)
SendInputs ==
    {[Body(TRUE, TRUE, <<"5", "1">>, m) EXCEPT !.status_code = 200] :
        m \in {<<"a">>, <<"a", "b">>, <<"", "a">>}}

InitSend ==
    /\ InitStore
    /\ hpc = [s \in Submissions |-> IF s = 2 THEN "h_new" ELSE "h_none"]
    /\ leads \in InitialLeads
    /\ \E td \in SendInputs :
        bg = [s \in Submissions |->
                IF s = 1 THEN [NoFlow EXCEPT !.pc = "dispatch", !.task_data = td] ELSE NoFlow]

\* the event loop has one thread: while a coroutine is inside the synchronous
\* requests.post of send_text_message, no other coroutine is run
EventLoopFreeFor(s) == \A t \in Submissions \ {s} : bg[t].pc # "in_send"

\* the event loop runs a step of a coroutine of submission s
Scheduled(s) ==
    /\ EventLoopFreeFor(s)
    /\ (Intake(s) \/ DispatchBegin(s) \/ SendBegin(s) \/ DispatchMessage(s))

NextSend == \E s \in Submissions : Scheduled(s)

SpecSend == InitSend /\ [][NextSend]_vars

\* SpecRate: times + 1 requests of one client to one path go through the
\* RateLimiter dependency while time passes.
InitRate ==
    /\ InitStore
    /\ hpc = [s \in Submissions |-> "h_none"]
    /\ leads = <<>>
    /\ bg = [s \in Submissions |-> NoFlow]

NextRate == RateTick \/ \E r \in RateRequests : RateFind(r) \/ RateDecide(r)

SpecRate == InitRate /\ [][NextRate]_vars


\* ================================================================= claims
\* the ASCII digits of a string, in order (what a digits-only phone number keeps)
DigitsOf(w) == SelectSeq(w, LAMBDA c : c \in AsciiDigits)
PureDigits(w) == w # <<>> /\ DigitsOf(w) = w

\* process_task_response was given a complete task result it can act on:
\* no error, gateway configured, job id and result present
Actionable(f) ==
    /\ f.given.error = "" /\ f.is_configured
    /\ f.given.has_task_id /\ f.given.has_result

Results(calls) == {calls[k].result : k \in DOMAIN calls}
CallTexts(calls) == [k \in DOMAIN calls |-> calls[k].text]

\* C1: a submission whose number already has a stored Lead when submit_form
\* looks it up inserts no Lead, makes no kickoff call, starts no background
\* flow, and answers is_duplicate = true with the id of the existing Lead.
C1_DuplicateShortCircuit ==
    \A s \in Submissions :
        hloc[s].stored_at_lookup =>
            /\ hloc[s].doc = 0
            /\ kickoffs[s] = 0
            /\ bg[s].pc = "idle"
            /\ hpc[s] \in {"h_dup", "h_done"}
            /\ hpc[s] = "h_done" =>
                /\ response[s].code = 201 /\ response[s].is_duplicate
                /\ response[s].document_id \in DOMAIN leads
                /\ leads[response[s].document_id] = hloc[s].clean

\* C1 witness: a duplicate submission has been answered
C1_Witness ==
    \E s \in Submissions :
        hloc[s].stored_at_lookup /\ hpc[s] = "h_done" /\ response[s].is_duplicate

\* C2 (as claimed): for a task result with a job id, a recipient and a
\* non-empty message list of length n, send is called exactly n times and the
\* i-th call carries the i-th message.  Stated for lists of non-empty strings
\* (an empty string is no message: the loop passes over it).
C2_SendsEveryMessageInOrder ==
    \A s \in Submissions :
        ( /\ bg[s].pc = "dispatched"
          /\ Actionable(bg[s])
          /\ PureDigits(bg[s].given.whatsapp)
          /\ bg[s].given.msg_resposta # <<>>
          /\ \A k \in DOMAIN bg[s].given.msg_resposta : bg[s].given.msg_resposta[k] # "" )
        => CallTexts(sent[s]) = bg[s].given.msg_resposta

\* C3: for a task result with status 200 and an empty message list (job id
\* present, recipient a digit string, gateway configured) exactly the two
\* fallback messages are sent, in their order, to the recipient, and the
\* result is success when both sends succeed.
C3_FallbackOnEmpty ==
    \A s \in Submissions :
        ( /\ bg[s].pc = "dispatched"
          /\ Actionable(bg[s])
          /\ PureDigits(bg[s].given.whatsapp)
          /\ bg[s].given.status_code = 200
          /\ bg[s].given.msg_resposta = <<>> )
        => /\ CallTexts(sent[s]) = <<FALLBACK_1, FALLBACK_2>>
           /\ \A k \in DOMAIN sent[s] : sent[s][k].number = bg[s].given.whatsapp
           /\ (Results(sent[s]) = {"ok"}) => bg[s].success

\* C3 witness: both fallback messages sent and success reported
C3_Witness ==
    \E s \in Submissions :
        /\ bg[s].pc = "dispatched" /\ bg[s].success
        /\ bg[s].given.status_code = 200 /\ bg[s].given.msg_resposta = <<>>
        /\ Len(sent[s]) = 2

\* the messages of a list the loop does not skip (non-empty strings)
SendableOf(msgs) == SelectSeq(msgs, Sendable)
\* the texts of the sends that succeeded, in order
OkTexts(calls) == CallTexts(SelectSeq(calls, LAMBDA c : c.result = "ok"))
HistoryTexts(h) == [k \in DOMAIN h |-> h[k].msg_resposta]

\* C4 (as claimed): when the gateway reports a failure for some message, every
\* message of the list is still attempted, and insert_chat_history is called
\* for every message whose send succeeded.
C4_FailureIsolation ==
    \A s \in Submissions :
        ( /\ bg[s].pc = "dispatched"
          /\ bg[s].messages # <<>>
          /\ "error" \in Results(sent[s]) )
        => /\ CallTexts(sent[s]) = SendableOf(bg[s].messages)
           /\ HistoryTexts(history[s]) = OkTexts(sent[s])

\* every send of the flow succeeded and no message was left out
AllSent(s) ==
    /\ Results(sent[s]) = {"ok"}
    /\ Len(sent[s]) = Len(bg[s].messages)

\* C5 (as claimed): when the flow that owns a record has finished after a
\* dispatch, the status is completed if every message was sent and
\* message_send_failed if a send failed (every update of the flow applied).
C5_FinalStatusTellsDelivery ==
    \A s \in Submissions :
        (bg[s].pc = "done" /\ ~bg[s].lost /\ sent[s] # <<>>)
        => queue[s].status = IF AllSent(s) THEN "completed" ELSE "message_send_failed"

\* duplicate, completed and the *_error / *_failed / *_exception tags
Terminal(st) ==
    st \in {"duplicate", "completed", "api_key_error", "task_check_error",
            "task_check_failed", "message_send_failed", "processing_exception",
            "sales_builder_api_error", "import_error", "task_processing_error"}

\* C6 (as claimed): once the status of a record is terminal, no later write
\* changes it.
C6_TerminalStatusStays ==
    [][\A s \in Submissions :
            Terminal(queue[s].status) => queue'[s].status = queue[s].status]_vars

\* C7 (as claimed): a call of check_task_status makes at most max_retries
\* probes, whatever the status endpoint answers.
C7_ProbesWithinBudget ==
    \A s \in Submissions : bg[s].probes <= max_retries

\* C8: when the poll ended in failure (403 without a usable refreshed key,
\* an error on the poll made after the refresh, or timeouts / transport errors
\* up to the budget), the flow sends no message and writes no history.
C8_NoDispatchAfterFailedPoll ==
    \A s \in Submissions :
        bg[s].poll_failed => sent[s] = <<>> /\ history[s] = <<>>

\* C8 witness: a flow whose poll failed has run to its end
C8_Witness ==
    \E s \in Submissions : bg[s].poll_failed /\ bg[s].pc = "done"

\* C9 (as claimed): every message is sent to exactly the digits of the
\* result's recipient string, in their order, and nothing is sent when the
\* string has no digit.
C9_RecipientIsItsDigits ==
    \A s \in Submissions :
        Actionable(bg[s]) =>
            /\ \A k \in DOMAIN sent[s] : sent[s][k].number = DigitsOf(bg[s].given.whatsapp)
            /\ DigitsOf(bg[s].given.whatsapp) = <<>> => sent[s] = <<>>

\* C10 (as claimed): in every reachable state the steps of a record, in
\* insertion order, have non-decreasing timestamps.
C10_StepsInTimeOrder ==
    \A s \in Submissions :
        \A i, j \in DOMAIN queue[s].steps :
            i < j => queue[s].steps[i].timestamp <= queue[s].steps[j].timestamp


\* check_and_process_task has got a task result without error from its poll
\* and is past the point where it stores the messages
PastStoring(f) ==
    /\ f.pc \notin {"idle", "b_start", "b_checking", "poll", "repoll", "polled", "repolled"}
    /\ ~HasError(f.task_data)

HasStep(r, name, ok) ==
    \E k \in DOMAIN r.steps : r.steps[k].step = name /\ r.steps[k].success = ok

\* C11: after a poll that returned a non-empty message list of length n (and
\* whose messages_stored update the store applied), the record holds that
\* list as messages, n as message_count, and a messages_stored step with
\* success = true.
C11_MessagesStored ==
    \A s \in Submissions :
        ( /\ PastStoring(bg[s])
          /\ bg[s].task_data.msg_resposta # <<>>
          /\ ~bg[s].task_data.fallback_messages_used
          /\ bg[s].stored # "failed" )
        => /\ queue[s].messages = bg[s].task_data.msg_resposta
           /\ queue[s].message_count = Len(bg[s].task_data.msg_resposta)
           /\ HasStep(queue[s], "messages_stored", TRUE)

\* C11 witness: a two-message result has been stored and the flow has ended
C11_Witness ==
    \E s \in Submissions :
        /\ bg[s].pc = "done" /\ bg[s].stored = "ok"
        /\ Len(bg[s].task_data.msg_resposta) = 2 /\ queue[s].message_count = 2

\* a reader of the record can tell that fallback content was used
RecordTellsFallback(r) ==
    \/ r.fallback_messages_used
    \/ r.messages = FallbackMessages
    \/ \E k \in DOMAIN r.steps : r.steps[k].step = "fallback_messages_used"

\* C12 (as claimed): whenever the fallback messages were substituted for an
\* empty list, the record of the finished flow is marked as fallback-used
\* (every update of the flow applied).
C12_RecordMarkedFallback ==
    \A s \in Submissions :
        (bg[s].pc = "done" /\ ~bg[s].lost /\ bg[s].task_data.fallback_messages_used)
        => RecordTellsFallback(queue[s])


\* C13 (as claimed): process_sales_builder_task never raises: whatever the
\* status source, the gateway and the store do (failing record updates
\* included), it returns true or false.
C13_NeverRaises ==
    \A s \in Submissions : bg[s].pc # "raised"


\* C14: once the Lead is stored, a kickoff that fails (an exception, or an
\* error answer) does not fail the submission: submit_form answers 201 with
\* the id of the Lead, and the Lead stays stored.
C14_KickoffFailureDoesNotFail ==
    \A s \in Submissions :
        hloc[s].sb \in {"error", "raised"} =>
            /\ hloc[s].doc \in DOMAIN leads
            /\ leads[hloc[s].doc] = hloc[s].clean
            /\ hpc[s] \in {"h_response", "h_done"}
            /\ hpc[s] = "h_done" =>
                /\ response[s].code = 201 /\ ~response[s].is_duplicate
                /\ response[s].document_id = hloc[s].doc

\* C14 witness: a submission whose kickoff raised has been answered
C14_Witness ==
    \E s \in Submissions :
        hloc[s].sb = "raised" /\ hpc[s] = "h_done" /\ response[s].code = 201

\* the stored Leads with number w; the submissions for w that made a kickoff
LeadsOf(w) == {k \in DOMAIN leads : leads[k] = w}
KickoffsFor(w) == {s \in Submissions : hloc[s].clean = w /\ kickoffs[s] > 0}

\* C15 (as claimed): in every interleaving of concurrent submissions for the
\* same number, at most one Lead is stored and at most one kickoff is made
\* for that number.
C15_OneLeadOneKickoff ==
    \A s \in Submissions :
        /\ Cardinality(LeadsOf(hloc[s].clean)) <= 1
        /\ Cardinality(KickoffsFor(hloc[s].clean)) <= 1


\* a digit 1-9 followed by 1 to 14 digits
WellFormedNumber(w) ==
    /\ Len(w) \in 2..15
    /\ w[1] \in {"1", "5"}
    /\ \A k \in DOMAIN w : w[k] \in {"0", "1", "5"}

\* submit_form has written nothing for submission s
NothingCreated(s) ==
    /\ queue[s] = NoRecord
    /\ hloc[s].doc = 0
    /\ kickoffs[s] = 0
    /\ bg[s].pc = "idle"

\* C16 (as claimed): a submission (with the right API key) whose number,
\* stripped of non-digits, is not a digit 1-9 followed by 1 to 14 digits is
\* answered with 422, and no record, Lead or kickoff is created for it.
C16_InvalidNumberIs422 ==
    \A s \in Submissions :
        ( /\ hpc[s] = "h_done"
          /\ hloc[s].api_key_ok
          /\ ~WellFormedNumber(DigitsOf(hloc[s].number)) )
        => response[s].code = 422 /\ NothingCreated(s)

\* C17: a submission with a wrong API key is answered with 401 and
\* submit_form writes nothing for it: no record, no Lead, no kickoff.
C17_WrongKeyIs401 ==
    \A s \in Submissions :
        (hpc[s] = "h_done" /\ ~hloc[s].api_key_ok)
        => response[s].code = 401 /\ NothingCreated(s)

\* C17 witness: a submission with a wrong key has been answered
C17_Witness ==
    \E s \in Submissions :
        hpc[s] = "h_done" /\ ~hloc[s].api_key_ok /\ response[s].code = 401


Polling(f) == f.pc \in {"poll", "repoll"}
PollReturned(f) == f.pc \in {"polled", "repolled"}

\* C18 (as claimed): once started, a poll eventually returns, whatever the
\* status source answers.
C18_PollReturns ==
    \A s \in Submissions : Polling(bg[s]) ~> ~Polling(bg[s])

\* C19 (as claimed): between two consecutive probes of a poll the poller
\* sleeps exactly once: while the poll runs it has slept once after each
\* probe made, and when it returns, once after each probe but the last.
C19_OneSleepBetweenProbes ==
    \A s \in Submissions :
        bg[s].probes < MaxProbes =>
            /\ Polling(bg[s]) => bg[s].sleeps = bg[s].probes
            /\ PollReturned(bg[s]) => bg[s].sleeps = bg[s].probes - 1

\* C20: if every probe of a poll got 200 with an empty message list, the poll
\* returns after exactly max_retries probes, and what it returns is that
\* empty result with status code 200, not an error.
C20_EmptyResultOnExhaustion ==
    \A s \in Submissions :
        bg[s].seen = {"empty"} =>
            /\ Polling(bg[s]) => bg[s].probes = bg[s].retries /\ bg[s].retries < max_retries
            /\ PollReturned(bg[s]) =>
                /\ bg[s].probes = max_retries
                /\ ~HasError(bg[s].task_data)
                /\ bg[s].task_data.status_code = 200
                /\ bg[s].task_data.has_result
                /\ bg[s].task_data.msg_resposta = <<>>

\* C20 witness: a poll has returned after max_retries empty answers
C20_Witness ==
    \E s \in Submissions :
        /\ bg[s].pc = "polled" /\ bg[s].seen = {"empty"}
        /\ bg[s].probes = max_retries /\ bg[s].task_data.status_code = 200

\* every probe of the flow so far ended in a timeout or a transport error
OnlyTransportFailures(f) ==
    f.seen # {} /\ f.seen \subseteq {"timeout", "request_error"} /\ ~f.refreshed

C22_FirstNonEmptyAnswerReturned ==
    \A s \in Submissions :
        ("messages" \in bg[s].seen /\ bg[s].seen \subseteq {"empty", "messages"}) =>
            /\ ~Polling(bg[s])
            /\ bg[s].probes = bg[s].retries + 1
            /\ bg[s].probes <= max_retries
            /\ bg[s].sleeps = bg[s].probes - 1
            /\ ("empty" \in bg[s].seen) = (bg[s].probes > 1)
            /\ PollReturned(bg[s]) =>
                /\ ~HasError(bg[s].task_data)
                /\ bg[s].task_data.status_code = 200
                /\ bg[s].task_data.msg_resposta # <<>>

\* C22 witness: an empty answer, then a non-empty one, returned at the second probe
C22_Witness ==
    \E s \in Submissions :
        /\ bg[s].pc = "polled" /\ bg[s].seen = {"empty", "messages"}
        /\ bg[s].probes = 2 /\ bg[s].task_data.msg_resposta # <<>>

\* C23 (as claimed): after a 403 a flow refreshes the credential at most once
\* and polls at most once more; when that poll fails too, the flow ends with
\* an api_key_error step and with status api_key_error (every update of the
\* flow applied).
C23_OneRefreshThenApiKeyError ==
    \A s \in Submissions :
        /\ bg[s].polls <= 2
        /\ bg[s].refreshed = (bg[s].polls = 2)
        /\ ( /\ bg[s].pc = "done" /\ ~bg[s].lost
             /\ bg[s].refreshed /\ HasError(bg[s].task_data) )
           => /\ HasStep(queue[s], "api_key_error", FALSE)
              /\ queue[s].status = "api_key_error"

\* C24 (as claimed): after a 403 the poll is made again only with a
\* credential that differs from the rejected one; with an unchanged
\* credential no further probe is made.
C24_RepollOnlyWithNewCredential ==
    \A s \in Submissions :
        bg[s].polls = 2 => bg[s].api_key # bg[s].rejected

\* C25: when the gateway client is not configured, process_task_response
\* makes no send, writes no history and returns failure.
C25_UnconfiguredGatewaySendsNothing ==
    \A s \in Submissions :
        (bg[s].pc # "idle" /\ ~bg[s].is_configured) =>
            /\ sent[s] = <<>>
            /\ history[s] = <<>>
            /\ bg[s].pc \in {"dispatch", "dispatched"}
            /\ bg[s].pc = "dispatched" => ~bg[s].success

\* C25 witness: a complete result with messages was given to an unconfigured
\* gateway and the pipeline has returned
C25_Witness ==
    \E s \in Submissions :
        /\ bg[s].pc = "dispatched" /\ ~bg[s].is_configured /\ ~bg[s].success
        /\ bg[s].given.error = "" /\ bg[s].given.has_task_id /\ bg[s].given.has_result
        /\ bg[s].given.msg_resposta # <<>>

\* the step appended a history write the store did not take
HistoryWriteFailed(s) ==
    /\ Len(history'[s]) = Len(history[s]) + 1
    /\ ~history'[s][Len(history'[s])].inserted

\* C26: a failed history write does not stop the loop (the next message is
\* next, or the loop returns after the last one, and the success flag is as
\* it was), and a run whose sends all succeeded returns success whatever the
\* history writes did.
C26_HistoryFailureIsHarmless ==
    [][\A s \in Submissions :
        /\ HistoryWriteFailed(s) =>
            /\ bg'[s].i = bg[s].i + 1
            /\ bg'[s].all_messages_sent_successfully = bg[s].all_messages_sent_successfully
            /\ IF bg[s].i < Len(bg[s].messages)
               THEN bg'[s].pc = "sending"
               ELSE bg'[s].pc = "dispatched"
                    /\ bg'[s].success = bg[s].all_messages_sent_successfully
        /\ (bg'[s].pc = "dispatched" /\ Results(sent'[s]) = {"ok"}) => bg'[s].success
      ]_vars

\* C26 witness: two messages sent, the history write of the first failed, and
\* the pipeline returned success
C26_Witness ==
    \E s \in Submissions :
        /\ bg[s].pc = "dispatched" /\ bg[s].success
        /\ Len(sent[s]) = 2 /\ Len(history[s]) = 2
        /\ ~history[s][1].inserted

\* recipient and text of the successful sends, and of the history writes
OkSends(calls) ==
    LET ok == SelectSeq(calls, LAMBDA c : c.result = "ok")
    IN [k \in DOMAIN ok |-> <<ok[k].number, ok[k].text>>]
HistoryWrites(h) == [k \in DOMAIN h |-> <<h[k].session_id, h[k].msg_resposta>>]

\* C27: the history writes of a flow are, in order, exactly its successful
\* sends (same recipient as the send, same text): one write per successful
\* send, none for a send that failed, none before the send.
C27_HistoryOnlyForSuccessfulSends ==
    \A s \in Submissions : HistoryWrites(history[s]) = OkSends(sent[s])

\* C27 witness: a failed send and a successful one, one history record stored
C27_Witness ==
    \E s \in Submissions :
        /\ bg[s].pc = "dispatched"
        /\ Results(sent[s]) = {"error", "ok"}
        /\ Len(history[s]) = 1 /\ history[s][1].inserted

\* the background flow of s has been created
Spawned(s) == bg[s].pc # "idle"

\* C28 (as claimed): once submit_form has spawned the background flow of a
\* record, no step of submit_form writes to that record.
C28_HandlerSilentAfterSpawn ==
    [][\A s \in Submissions :
        (Spawned(s) /\ hpc'[s] # hpc[s]) => queue'[s] = queue[s]]_vars

\* submit_form of t has a step to take
HandlerPending(t) == hpc[t] \notin {"h_none", "h_done"}

\* C29 (as claimed): while the send of one flow is in flight, a coroutine of
\* another submission that has a step to take can take it.
C29_SendIsSuspensionPoint ==
    \A s, t \in Submissions :
        (s # t /\ bg[s].pc = "in_send" /\ HandlerPending(t)) => ENABLED Scheduled(t)

\* the step is a probe of the poll of s; the step ends a send of s
ProbeMade(s) == Polling(bg[s]) /\ bg'[s].parity # bg[s].parity
SendMade(s) == Len(sent'[s]) = Len(sent[s]) + 1

\* C30 (as claimed): every single probe and every single message send
\* appends exactly one step to the record.
C30_OneStepPerProbeAndSend ==
    [][\A s \in Submissions :
        (ProbeMade(s) \/ SendMade(s)) =>
            Len(queue'[s].steps) = Len(queue[s].steps) + 1]_vars

\* process_task_response returned False before its send loop: the result
\* was incomplete, the gateway not configured, or the recipient invalid
DispatchRefused(f) ==
    /\ f.pc \in {"cp_done", "done"} /\ ~HasError(f.task_data)
    /\ ~f.success /\ f.whatsapp = <<>>

\* C31 (as claimed): when the dispatch fails for such a cause, the status and
\* the step written for it are not the message_send_failed of a partial
\* delivery failure (every update of the flow applied).
C31_DispatchFailureNamesCause ==
    \A s \in Submissions :
        (DispatchRefused(bg[s]) /\ ~bg[s].lost) =>
            ~HasStep(queue[s], "message_send_failed", FALSE)

\* the status tags that tell an error
ErrorTag(st) == Terminal(st) /\ st \notin {"duplicate", "completed"}

\* C32 (as claimed): when the kickoff call returns an error response, the
\* record of the answered submission has an error status tag and a step with
\* success = false.
C32_KickoffErrorIsRecorded ==
    \A s \in Submissions :
        (hpc[s] = "h_done" /\ hloc[s].sb = "error") =>
            /\ ErrorTag(queue[s].status)
            /\ \E k \in DOMAIN queue[s].steps : ~queue[s].steps[k].success

IsPrefix(a, b) == Len(a) <= Len(b) /\ \A k \in DOMAIN a : b[k] = a[k]

\* C33: every write to a record leaves the steps it had as a prefix of the
\* steps it has: steps are appended, never removed, rewritten or reordered.
C33_StepsAppendOnly ==
    [][\A s \in Submissions : IsPrefix(queue[s].steps, queue'[s].steps)]_vars

\* C33 witness: a record written by the handler and by the whole flow
C33_Witness ==
    \E s \in Submissions :
        /\ bg[s].pc = "done" /\ hpc[s] = "h_done"
        /\ Len(queue[s].steps) >= 11

\* the requests the limiter let through whose `now` lies in the window that
\* started at f
AcceptedIn(f) ==
    {r \in RateRequests :
        rate.pc[r] = "r_ok" /\ f <= rate.now[r] /\ rate.now[r] < f + window}

\* C34 (as claimed): for one client and one path the limiter lets through at
\* most `times` requests within one of its windows, in every interleaving of
\* concurrent requests.
C34_AtMostTimesPerWindow ==
    \A f \in rate.starts : Cardinality(AcceptedIn(f)) <= times

\* C35: every write that changes the status of a record appends exactly one
\* step in the same update; the status never changes without a new step.
C35_StatusChangesWithOneStep ==
    [][\A s \in Submissions :
        queue'[s].status # queue[s].status =>
            /\ Len(queue'[s].steps) = Len(queue[s].steps) + 1
            /\ IsPrefix(queue[s].steps, queue'[s].steps)]_vars

\* C35 witness: the flow has set the status completed with its messages_sent step
C35_Witness ==
    \E s \in Submissions :
        /\ bg[s].pc = "cp_done" /\ queue[s].status = "completed"
        /\ HasStep(queue[s], "messages_sent", TRUE)

\* the step is the lead lookup of submission t
LooksUp(t) == hpc[t] = "h_lookup" /\ hpc'[t] # "h_lookup"

\* C36: a submission that looks a number up once a Lead is stored for it
\* takes the duplicate branch, and from then on it makes no kickoff, starts
\* no flow and sends nothing, whatever became of the submission that stored
\* the Lead.
C36_ResubmissionNeverKicksOff ==
    [][\A t \in Submissions :
        /\ (LooksUp(t) /\ LeadsOf(hloc[t].clean) # {}) => hpc'[t] = "h_dup"
        /\ hpc[t] \in {"h_dup", "h_done"} =>
            /\ hpc'[t] \in {"h_dup", "h_done"}
            /\ kickoffs'[t] = kickoffs[t]
            /\ bg'[t] = bg[t]
            /\ sent'[t] = sent[t]
            /\ leads' = leads \/ hpc'[t] = hpc[t]
      ]_vars

\* C36 witness: the kickoff of the first submission failed, and the second
\* submission of the same number was answered as a duplicate of its Lead
C36_Witness ==
    \E s, t \in Submissions :
        /\ s # t /\ hloc[s].sb \in {"error", "raised"} /\ hpc[s] = "h_done"
        /\ hpc[t] = "h_done" /\ response[t].is_duplicate
        /\ response[t].document_id = hloc[s].doc
        /\ kickoffs[t] = 0 /\ bg[t].pc = "idle"

\* C37 (as claimed): every call of send_text_message returns a result (sent
\* or error) and none raises, whatever the text; so the loop attempts every
\* message it does not pass over.
C37_SendNeverRaises ==
    \A s \in Submissions :
        /\ \A k \in DOMAIN sent[s] : sent[s][k].result \in {"ok", "error"}
        /\ (bg[s].pc = "dispatched" /\ bg[s].messages # <<>>) =>
                Len(sent[s]) = Len(SendableOf(bg[s].messages))

\* C38 (as claimed): every message a flow sends goes to the (cleaned) number
\* of the submission that started the flow, whatever recipient the status
\* endpoint puts in its result.
C38_RecipientIsTheSubmissions ==
    \A s \in Submissions :
        \A k \in DOMAIN sent[s] : sent[s][k].number = hloc[s].clean

Ended(f) == f.pc \in {"done", "raised"}

\* C40 (as claimed): when a flow ends, every client it opened is closed: the
\* HTTP client, its replacement after a refresh, the client of the request
\* documents and the client opened for the history writes.
C40_ClientsClosed ==
    \A s \in Submissions : Ended(bg[s]) => bg[s].open = {}

====
